---- MODULE Spec2Model ----
(***************************************************************************)
(* Model of bin/nle.py: the receding-horizon battery dispatch              *)
(* (run_opt, run_operations), the ex-post cost (calculate_operational_     *)
(* costs) and the two-run comparison of run_nle.                           *)
(*                                                                         *)
(* Numbers.  The program computes in floats; the model computes in         *)
(* integers.  Raw series values are drawn from sets for which the min-max  *)
(* normalisation of run_nle is exact, and the solver's decision variable   *)
(* bss_p_ch ranges over the integers p for which bat_efficiency * p is an  *)
(* integer (PGrid).  Rationals of the configuration (bat_efficiency,       *)
(* bat_initial_soc) are records [num, den].                                *)
(*                                                                         *)
(* Indices.  Python lists and tables are 0-based, TLA+ sequences 1-based:  *)
(* dfs_mpc[k] of the code is dfs_mpc[k + 1] here, a window is a sequence   *)
(* of rows, a row is <<column 0, column 1>>.  The loop counter t and the   *)
(* keys of the operations dict keep the code's values.                     *)
(***************************************************************************)
EXTENDS Integers, Sequences, FiniteSets, TLC

VARIABLES
    config,                 \* nle_config (read-only after loading)
    ts_list,                \* ts_list_per_model[model]: raw forecasts, one per window
    gt,                     \* raw ground-truth series, gt[i + 1] is the value at time i
    tie,                    \* which of several optimal solutions the solver returns
    run,                    \* "gt": baseline run of run_operations, "model": model run
    pc,                     \* position in run_nle / run_operations
    dfs_mpc,                \* argument of the running run_operations
    t,                      \* loop counter of run_operations
    peak,                   \* local of run_operations
    energy_in_the_battery,  \* local of run_operations
    operations,             \* local dict of run_operations, in insertion order
    solves,                 \* history: the calls of run_opt made by the running run_operations
    df_operations_gt,       \* run_nle: trace of the baseline run
    df_operations,          \* run_nle: trace of the model run
    costs_gt,               \* run_nle: cost of the baseline run
    costs,                  \* run_nle: cost of the model run
    nle_score,              \* run_nle: its result
    err                     \* the exception that ended run_nle, "none" while there is none

vars == <<config, ts_list, gt, tie, run, pc, dfs_mpc, t, peak, energy_in_the_battery,
          operations, solves, df_operations_gt, df_operations, costs_gt, costs,
          nle_score, err>>

-----------------------------------------------------------------------------
(* Bounds and input sets *)

\* Largest number of forecast windows handed to run_nle.
MaxN == 3

\* Length of every forecast window (the horizon).
Horizons == {2}

\* Raw ground-truth values, and the raw values of flat forecasts.
GtRawVals == {1, 3}
FlatRawVals == {-1}

\* Configurations: the numeric fields of nle_config.json.
Efficiencies == {[num |-> 1, den |-> 2], [num |-> 1, den |-> 1]}
InitialSocs == {[num |-> 1, den |-> 2], [num |-> 1, den |-> 1], [num |-> 3, den |-> 2]}
BatSizes == {4}
MaxPowers == {0, 2}
EndSocWeights == {0, 1}
PeakCosts == {2}
PeakInits == {0, 1}

Configs ==
    [bat_size_kwh : BatSizes, bat_efficiency : Efficiencies, bat_max_power : MaxPowers,
     bat_end_soc_weight : EndSocWeights, peak_cost : PeakCosts, peak_init : PeakInits,
     bat_initial_soc : InitialSocs]

\* The rules by which the solver picks one of several optimal solutions.
TieRules == {"lo", "hi"}

-----------------------------------------------------------------------------
(* Floats: NaN and the operations the code applies to values that may be NaN *)

\* The value a left join leaves where the ground truth has no entry.
NaN == -1000000

IsNaN(x) == x = NaN

\* a + b of two floats
PyAdd(a, b) == IF IsNaN(a) \/ IsNaN(b) THEN NaN ELSE a + b

\* a > b of two floats: any comparison with NaN is False
PyGt(a, b) == ~IsNaN(a) /\ ~IsNaN(b) /\ a > b

\* Python's max(list): keeps the running maximum m, replaced by x when x > m
RECURSIVE PyMaxFrom(_, _, _)
PyMaxFrom(list, i, m) ==
    IF i > Len(list) THEN m
    ELSE PyMaxFrom(list, i + 1, IF PyGt(list[i], m) THEN list[i] ELSE m)

PyMax(list) == PyMaxFrom(list, 2, list[1])

\* Python's min(a, b): b when b < a, and a otherwise
PyMin2(a, b) == IF PyGt(a, b) THEN b ELSE a

-----------------------------------------------------------------------------
(* run_opt: the horizon problem and the solution the solver returns *)

\* m.T: the 0-based indices of the horizon (index i of the code is i + 1 below)
T(load_forecast) == 0..(Len(load_forecast) - 1)

\* PGrid without bat_lim_power_neg: discharge limited by the stored energy only
PGrid_NoLowerLimit(cfg) ==
    {p \in (-cfg.bat_size_kwh)..cfg.bat_max_power :
        (cfg.bat_efficiency.num * p) % cfg.bat_efficiency.den = 0}

\* The values bss_p_ch[t] may take: bat_lim_power_neg and bat_lim_power_pos,
\* on the grid where bat_efficiency * bss_p_ch[t] is an integer.
PGrid(cfg) ==
    {p \in (-cfg.bat_max_power)..cfg.bat_max_power :
        (cfg.bat_efficiency.num * p) % cfg.bat_efficiency.den = 0}

\* bat_soc: bss_en[0] = bss_energy_start + bss_p_ch[0],
\* bss_en[i] = bss_en[i - 1] + bss_p_ch[i]
RECURSIVE bss_en(_, _, _)
bss_en(bss_energy_start, bss_p_ch, i) ==
    IF i = 0 THEN bss_energy_start + bss_p_ch[1]
    ELSE bss_en(bss_energy_start, bss_p_ch, i - 1) + bss_p_ch[i + 1]

\* energy_balance: net_load[i] = bss_eff * bss_p_ch[i] + demand[i]
net_load(cfg, demand, bss_p_ch, i) ==
    (cfg.bat_efficiency.num * bss_p_ch[i + 1]) \div cfg.bat_efficiency.den + demand[i + 1]

\* bat_lim_energy left out: only the domain of bss_en remains
bat_lim_energy_NoCap(cfg, bss_energy_start, bss_p_ch, i) ==
    0 <= bss_en(bss_energy_start, bss_p_ch, i)

\* bss_en is declared NonNegativeReals; bat_lim_energy: bss_en[i] <= bss_size
bat_lim_energy(cfg, bss_energy_start, bss_p_ch, i) ==
    /\ 0 <= bss_en(bss_energy_start, bss_p_ch, i)
    /\ bss_en(bss_energy_start, bss_p_ch, i) <= cfg.bat_size_kwh

\* The charge plans (bss_p_ch[0..H-1]) that satisfy every constraint on the battery.
\* The other variables (net_load, peak, dev_peak_plus, dev_peak_minus) can always be
\* chosen to satisfy their constraints, see OptPeak.
FeasiblePlans(cfg, demand, bss_energy_start) ==
    {p \in [1..Len(demand) -> PGrid(cfg)] :
        \A i \in T(demand) : bat_lim_energy(cfg, bss_energy_start, p, i)}

Max2(a, b) == IF a >= b THEN a ELSE b

RECURSIVE MaxNetLoadFrom(_, _, _, _)
MaxNetLoadFrom(cfg, demand, bss_p_ch, i) ==
    IF i = Len(demand) - 1 THEN net_load(cfg, demand, bss_p_ch, i)
    ELSE Max2(net_load(cfg, demand, bss_p_ch, i),
              MaxNetLoadFrom(cfg, demand, bss_p_ch, i + 1))

\* m.peak at the optimum of a given plan: peak is NonNegativeReals, operation_peak
\* makes it >= every net_load[i], and the objective (peak_cost > 0) then puts it as
\* near monthly_peak as these allow.
OptPeak(cfg, demand, monthly_peak, bss_p_ch) ==
    Max2(monthly_peak, Max2(0, MaxNetLoadFrom(cfg, demand, bss_p_ch, 0)))

\* relevant_peak: peak - monthly_peak = dev_peak_plus - dev_peak_minus, both >= 0;
\* at the optimum the smaller of the two is 0.
dev_peak_plus(cfg, demand, monthly_peak, bss_p_ch) ==
    Max2(OptPeak(cfg, demand, monthly_peak, bss_p_ch) - monthly_peak, 0)

dev_peak_minus(cfg, demand, monthly_peak, bss_p_ch) ==
    Max2(monthly_peak - OptPeak(cfg, demand, monthly_peak, bss_p_ch), 0)

\* cost: the objective
cost(cfg, demand, bss_energy_start, monthly_peak, bss_p_ch) ==
    LET final_soc == bss_en(bss_energy_start, bss_p_ch, Len(demand) - 1)
        terminal_cost == cfg.bat_end_soc_weight
                            * (final_soc - bss_energy_start) * (final_soc - bss_energy_start)
        above_peak_costs == (dev_peak_plus(cfg, demand, monthly_peak, bss_p_ch) + monthly_peak)
                                * cfg.peak_cost
        below_peak_reward == (dev_peak_minus(cfg, demand, monthly_peak, bss_p_ch) + monthly_peak)
                                * cfg.peak_cost
        peak_costs == above_peak_costs + below_peak_reward
    IN  peak_costs + terminal_cost

MinOf(S) == CHOOSE c \in S : \A d \in S : c <= d

\* The plans of least cost (F: the feasible plans, least: their least cost)
OptimalPlans(cfg, demand, bss_energy_start, monthly_peak) ==
    UNION {UNION {{p \in F : cost(cfg, demand, bss_energy_start, monthly_peak, p) = least} :
                    least \in {MinOf({cost(cfg, demand, bss_energy_start, monthly_peak, q) :
                                        q \in F})}} :
             F \in {FeasiblePlans(cfg, demand, bss_energy_start)}}

\* p before q in the lexicographic order of plans
LexLess(p, q) ==
    \E i \in DOMAIN p : p[i] < q[i] /\ \A j \in DOMAIN p : j < i => p[j] = q[j]

TheOnly(S) == CHOOSE x \in S : TRUE

\* opt.solve: the solver is a deterministic program; of several optimal plans it
\* returns one, here the first or the last in lexicographic order.
Solve(cfg, demand, bss_energy_start, monthly_peak, rule) ==
    TheOnly({CHOOSE p \in O : \A q \in O \ {p} :
                IF rule = "lo" THEN LexLess(p, q) ELSE LexLess(q, p) :
             O \in {OptimalPlans(cfg, demand, bss_energy_start, monthly_peak)}})

\* Whether opt.solve finds a solution: the demand is finite and some plan is feasible
Solvable(cfg, load_forecast, bss_energy) ==
    /\ \A i \in 1..Len(load_forecast) : ~IsNaN(load_forecast[i])
    /\ FeasiblePlans(cfg, load_forecast, bss_energy) # {}

\* sp = res_df.iloc[1].to_dict(): the values at index 1 of the horizon
run_opt(load_forecast, bss_energy, monthly_peak, cfg, rule) ==
    TheOnly({[net_load |-> net_load(cfg, load_forecast, p, 1),
              bss_p_ch |-> p[2],
              bss_en   |-> bss_en(bss_energy, p, 1)] :
             p \in {Solve(cfg, load_forecast, bss_energy, monthly_peak, rule)}})

-----------------------------------------------------------------------------
(* run_nle: the two window sequences *)

SeqMin(s) == CHOOSE x \in {s[i] : i \in 1..Len(s)} : \A j \in 1..Len(s) : x <= s[j]
SeqMax(s) == CHOOSE x \in {s[i] : i \in 1..Len(s)} : \A j \in 1..Len(s) : x >= s[j]

\* gt.min(), gt.max()
gt_min(g) == SeqMin(g)
gt_max(g) == SeqMax(g)

\* .join(gt, how="left"): forecast k covers the times k .. k + H - 1; the ground
\* truth at time i, NaN where the series has no entry for it
GtAt(g, i) == IF i < Len(g) THEN g[i + 1] ELSE NaN

\* (x - gt_min) / (gt_max - gt_min)
Normalise(x, g) ==
    IF IsNaN(x) THEN NaN ELSE (x - gt_min(g)) \div (gt_max(g) - gt_min(g))

\* dfs_mpc_gt: forecast, gt, gt_sup joined and normalised, then .iloc[:, 1:]
BuildDfsMpcGt(tsl, g) ==
    [k \in 1..Len(tsl) |->
        [i \in 1..Len(tsl[k]) |->
            LET joined == <<tsl[k][i], GtAt(g, (k - 1) + (i - 1)), GtAt(g, (k - 1) + (i - 1))>>
                normed == [c \in 1..3 |-> Normalise(joined[c], g)]
            IN  SubSeq(normed, 2, 3)]]

\* dfs_mpc built without the normalisation
BuildDfsMpc_Raw(tsl, g) ==
    [k \in 1..Len(tsl) |->
        [i \in 1..Len(tsl[k]) |-> <<tsl[k][i], GtAt(g, (k - 1) + (i - 1))>>]]

\* dfs_mpc: forecast and gt joined and normalised
BuildDfsMpc(tsl, g) ==
    [k \in 1..Len(tsl) |->
        [i \in 1..Len(tsl[k]) |->
            LET joined == <<tsl[k][i], GtAt(g, (k - 1) + (i - 1))>>
            IN  [c \in 1..2 |-> Normalise(joined[c], g)]]]

-----------------------------------------------------------------------------
(* run_operations *)

\* df.iloc[:, c].values.tolist(): column c (0-based) of a window
Column(df_mpc, c) == [i \in 1..Len(df_mpc) |-> df_mpc[i][c + 1]]

\* config.bat_size_kwh * config.bat_initial_soc
InitialEnergy(cfg) ==
    (cfg.bat_size_kwh * cfg.bat_initial_soc.num) \div cfg.bat_initial_soc.den

\* set_point_time = t: the set point keyed by the time it was solved at
SetPointTime_Same(step) == step

\* set_point_time = t + 1
SetPointTime(step) == step + 1

\* .iloc[[0], [0]]: the first column, which holds the forecast in the model run
LoadSetPointTime_FirstColumn(dfs, set_point_time) == dfs[set_point_time + 1][1][1]

\* dfs_mpc[set_point_time].iloc[[0], [1]].values.flatten()[0]
LoadSetPointTime(dfs, set_point_time) == dfs[set_point_time + 1][1][2]

\* if net_load > peak: peak = min(net_load, max(dfs_mpc[set_point_time].iloc[:, 0]))
NextPeak(pk, nl, dfs, set_point_time) ==
    IF PyGt(nl, pk) THEN PyMin2(nl, PyMax(Column(dfs[set_point_time + 1], 0))) ELSE pk

\* The carried energy advanced by the realized charge instead of replaced by bss_en
NextEnergy_AddCharge(energy, set_point) == energy + set_point.bss_p_ch

\* energy_in_the_battery = set_point["bss_en"]
NextEnergy(energy, set_point) == set_point.bss_en

\* operations.update({key: row}) on a dict kept in insertion order
DictUpdate(ops, key, row) ==
    IF \E i \in 1..Len(ops) : ops[i].key = key
    THEN [i \in 1..Len(ops) |-> IF ops[i].key = key THEN [key |-> key, row |-> row] ELSE ops[i]]
    ELSE Append(ops, [key |-> key, row |-> row])

\* enumerate(dfs_mpc[:-1]): the loop has an iteration for index step
HasIteration(dfs, step) == step < Len(dfs) - 1

\* Entry of run_operations: the locals before the loop
EnterRunOperations(dfs) ==
    /\ dfs_mpc' = dfs
    /\ peak' = config.peak_init
    /\ energy_in_the_battery' = InitialEnergy(config)
    /\ operations' = <<>>
    /\ t' = 0
    /\ solves' = <<>>
    /\ pc' = "loop"

\* The record of a call of run_opt
SolveCall == [window |-> t, bss_energy |-> energy_in_the_battery, peak |-> peak]

\* One iteration of the loop, the solver returning a solution
Step ==
    /\ pc = "loop"
    /\ HasIteration(dfs_mpc, t)
    /\ LET load_forecast == Column(dfs_mpc[t + 1], 0)
       IN  /\ Solvable(config, load_forecast, energy_in_the_battery)
           /\ \E set_point \in {run_opt(load_forecast, energy_in_the_battery, peak, config, tie)} :
              LET set_point_time == SetPointTime(t)
                  load_set_point_time == LoadSetPointTime(dfs_mpc, set_point_time)
                  nl == PyAdd(load_set_point_time, set_point.bss_p_ch)
                  new_peak == NextPeak(peak, nl, dfs_mpc, set_point_time)
                  row == [net_load |-> set_point.net_load,
                          bss_p_ch |-> set_point.bss_p_ch,
                          bss_en |-> set_point.bss_en,
                          load |-> load_set_point_time,
                          opr_net_load |-> nl,
                          peak |-> new_peak,
                          forecast |-> load_forecast[1]]
              IN  /\ peak' = new_peak
                  /\ energy_in_the_battery' = NextEnergy(energy_in_the_battery, set_point)
                  /\ operations' = DictUpdate(operations, set_point_time, row)
    /\ solves' = Append(solves, SolveCall)
    /\ t' = t + 1
    /\ UNCHANGED <<config, ts_list, gt, tie, run, pc, dfs_mpc, df_operations_gt,
                   df_operations, costs_gt, costs, nle_score, err>>

\* One iteration of the loop, the solver finding no solution and opt.solve raising:
\* nothing catches the exception, run_nle ends with it.
StepSolveRaises ==
    /\ pc = "loop"
    /\ HasIteration(dfs_mpc, t)
    /\ ~Solvable(config, Column(dfs_mpc[t + 1], 0), energy_in_the_battery)
    /\ solves' = Append(solves, SolveCall)
    /\ pc' = "error"
    /\ err' = "opt.solve"
    /\ UNCHANGED <<config, ts_list, gt, tie, run, dfs_mpc, t, peak, energy_in_the_battery,
                   operations, df_operations_gt, df_operations, costs_gt, costs, nle_score>>

\* One iteration of the loop, the solver finding no solution and opt.solve returning:
\* run_opt does not look at results, the variables of the fresh model hold None, the
\* set point is {net_load: None, bss_p_ch: None, bss_en: None}, and
\* load_set_point_time + set_point["bss_p_ch"] raises TypeError.
StepSolveUnloaded ==
    /\ pc = "loop"
    /\ HasIteration(dfs_mpc, t)
    /\ ~Solvable(config, Column(dfs_mpc[t + 1], 0), energy_in_the_battery)
    /\ solves' = Append(solves, SolveCall)
    /\ pc' = "error"
    /\ err' = "TypeError"
    /\ UNCHANGED <<config, ts_list, gt, tie, run, dfs_mpc, t, peak, energy_in_the_battery,
                   operations, df_operations_gt, df_operations, costs_gt, costs, nle_score>>

\* return pd.DataFrame(operations).T
ReturnOperations ==
    /\ pc = "loop"
    /\ ~HasIteration(dfs_mpc, t)
    /\ pc' = "returned"
    /\ UNCHANGED <<config, ts_list, gt, tie, run, dfs_mpc, t, peak, energy_in_the_battery,
                   operations, solves, df_operations_gt, df_operations, costs_gt, costs,
                   nle_score, err>>

-----------------------------------------------------------------------------
(* calculate_operational_costs *)

\* Series.max(): the largest value that is not NaN, NaN when there is none
PdMax(values) ==
    LET finite == {values[i] : i \in 1..Len(values)} \ {NaN}
    IN  IF finite = {} THEN NaN ELSE CHOOSE x \in finite : \A y \in finite : x >= y

PyMul(a, b) == IF IsNaN(a) \/ IsNaN(b) THEN NaN ELSE a * b

\* The penalty taken from column "net_load" (the net load the solver planned on the
\* forecast) instead of "opr_net_load"
calculate_operational_costs_PlannedNetLoad(df, cfg) ==
    [total_cost |-> PyMul(PdMax([i \in 1..Len(df) |-> df[i].row.net_load]), cfg.peak_cost)]

\* peak_penalty = df_operations["opr_net_load"].max() * config.peak_cost
calculate_operational_costs(df, cfg) ==
    [total_cost |-> PyMul(PdMax([i \in 1..Len(df) |-> df[i].row.opr_net_load]), cfg.peak_cost)]

\* df_operations["opr_net_load"] of a frame built from an empty dict: KeyError
CostsKeyError ==
    /\ pc = "returned"
    /\ operations = <<>>
    /\ pc' = "error"
    /\ err' = "KeyError"
    /\ df_operations_gt' = IF run = "gt" THEN operations ELSE df_operations_gt
    /\ df_operations' = IF run = "model" THEN operations ELSE df_operations
    /\ UNCHANGED <<config, ts_list, gt, tie, run, dfs_mpc, t, peak, energy_in_the_battery,
                   operations, solves, costs_gt, costs, nle_score>>

\* df_operations_gt = run_operations(...); costs_gt = calculate_operational_costs(...)
\* and the same for the model run
CalculateCosts ==
    /\ pc = "returned"
    /\ operations # <<>>
    /\ pc' = "costed"
    /\ df_operations_gt' = IF run = "gt" THEN operations ELSE df_operations_gt
    /\ df_operations' = IF run = "model" THEN operations ELSE df_operations
    /\ costs_gt' = IF run = "gt" THEN calculate_operational_costs(operations, config)
                   ELSE costs_gt
    /\ costs' = IF run = "model" THEN calculate_operational_costs(operations, config)
                ELSE costs
    /\ UNCHANGED <<config, ts_list, gt, tie, run, dfs_mpc, t, peak, energy_in_the_battery,
                   operations, solves, nle_score, err>>

-----------------------------------------------------------------------------
(* run_nle *)

\* Ground truth operations as baseline: run_operations(dfs_mpc_gt, nle_config)
BeginGtRun ==
    /\ pc = "start"
    /\ run' = "gt"
    /\ EnterRunOperations(BuildDfsMpcGt(ts_list, gt))
    /\ UNCHANGED <<config, ts_list, gt, tie, df_operations_gt, df_operations, costs_gt,
                   costs, nle_score, err>>

\* Model operations: run_operations(dfs_mpc, nle_config)
BeginModelRun ==
    /\ pc = "costed"
    /\ run = "gt"
    /\ run' = "model"
    /\ EnterRunOperations(BuildDfsMpc(ts_list, gt))
    /\ UNCHANGED <<config, ts_list, gt, tie, df_operations_gt, df_operations, costs_gt,
                   costs, nle_score, err>>

\* nle_score = costs["total_cost"] - costs_gt["total_cost"]
Score ==
    /\ pc = "costed"
    /\ run = "model"
    /\ nle_score' = PyAdd(costs.total_cost, PyMul(-1, costs_gt.total_cost))
    /\ pc' = "done"
    /\ UNCHANGED <<config, ts_list, gt, tie, run, dfs_mpc, t, peak, energy_in_the_battery,
                   operations, solves, df_operations_gt, df_operations, costs_gt, costs, err>>

-----------------------------------------------------------------------------
(* Inputs and the specification *)

\* The ground-truth series handed to run_nle with n forecasts of length h: complete
\* (times 0 .. n + h - 2) or ending before the last realized time (times 0 .. n - 2);
\* at least two values, with gt_max > gt_min
GtSeries(n, h) ==
    {g \in UNION {[1..len -> GtRawVals] :
                    len \in {Max2(n + h - 1, 2)} \cup ({n - 1} \cap (2..n))} :
        SeqMin(g) < SeqMax(g)}

\* The forecasts for window k (0-based): the ground truth itself where the series
\* covers the window, or a flat forecast
Forecasts(g, k, h) ==
    {[i \in 1..h |-> v] : v \in FlatRawVals}
        \cup (IF k + h <= Len(g) THEN {[i \in 1..h |-> GtAt(g, k + i - 1)]} ELSE {})

Init ==
    /\ config \in Configs
    /\ tie \in TieRules
    /\ \E n \in 0..MaxN, h \in Horizons :
          /\ gt \in GtSeries(n, h)
          /\ ts_list \in {tsl \in [1..n -> UNION {Forecasts(gt, k, h) : k \in 0..(n - 1)}] :
                            \A k \in 1..n : tsl[k] \in Forecasts(gt, k - 1, h)}
    /\ run = "none"
    /\ pc = "start"
    /\ dfs_mpc = <<>>
    /\ t = 0
    /\ peak = config.peak_init
    /\ energy_in_the_battery = InitialEnergy(config)
    /\ operations = <<>>
    /\ solves = <<>>
    /\ df_operations_gt = <<>>
    /\ df_operations = <<>>
    /\ costs_gt = <<>>
    /\ costs = <<>>
    /\ nle_score = NaN
    /\ err = "none"

Next ==
    \/ BeginGtRun
    \/ Step
    \/ StepSolveRaises
    \/ StepSolveUnloaded
    \/ ReturnOperations
    \/ CostsKeyError
    \/ CalculateCosts
    \/ BeginModelRun
    \/ Score

Spec == Init /\ [][Next]_vars

-----------------------------------------------------------------------------
(* Properties *)

\* The peak run_operations held before it wrote row i of operations
PrevPeak(i) == IF i = 1 THEN config.peak_init ELSE operations[i - 1].row.peak

\* The window sequence of the running run_operations holds n windows
Windows == Len(dfs_mpc)

InRun == run \in {"gt", "model"}

\* bat_initial_soc is in [0, 1]
ValidSoc ==
    /\ 0 <= config.bat_initial_soc.num
    /\ config.bat_initial_soc.num <= config.bat_initial_soc.den

\* C1: after every step the peak is max(previous peak, min(realized net load, max of
\* the demand values of the next window)), and so never below the previous peak.
C1_PeakIsClippedRunningMax ==
    \A i \in 1..Len(operations) :
        LET r == operations[i].row
            ceiling == PyMax(Column(dfs_mpc[operations[i].key + 1], 0))
        IN  /\ r.peak = Max2(PrevPeak(i), PyMin2(r.opr_net_load, ceiling))
            /\ r.peak >= PrevPeak(i)

\* C2: with exactly 2 windows and bat_initial_soc in [0, 1], the battery energy held
\* after the single step is the initial energy plus the bss_p_ch of the realized set
\* point, and lies in [0, bat_size_kwh].
C2_SingleStepEnergy ==
    (InRun /\ Windows = 2 /\ ValidSoc /\ Len(operations) = 1) =>
        /\ energy_in_the_battery = InitialEnergy(config) + operations[1].row.bss_p_ch
        /\ 0 <= energy_in_the_battery
        /\ energy_in_the_battery <= config.bat_size_kwh

\* C3 as stated: the realized load of row t+1 is the first row of window t+1's FIRST
\* column.
C3_LoadFromFirstColumn ==
    \A i \in 1..Len(operations) :
        operations[i].row.load = dfs_mpc[operations[i].key + 1][1][1]

\* C3 as amended: the realized load of row t+1 is the first row of window t+1's SECOND
\* column, which is the normalised ground truth of time t+1 and so a function of the
\* ground truth alone, whatever the forecasts are.
C3_LoadIsGroundTruth ==
    \A i \in 1..Len(operations) :
        /\ operations[i].row.load = dfs_mpc[operations[i].key + 1][1][2]
        /\ operations[i].row.load = Normalise(GtAt(gt, operations[i].key), gt)

\* C3 witness: a model run has realized a step whose forecast of the realized time
\* differs from the ground truth.
C3_Witness ==
    /\ run = "model"
    /\ \E i \in 1..Len(operations) :
          /\ operations[i].row.load # dfs_mpc[operations[i].key + 1][1][1]
          /\ operations[i].row.load # dfs_mpc[operations[i].key][2][1]

\* C4: given N >= 2 windows, the trace run_operations returns has N - 1 rows keyed
\* 1 .. N - 1 in order; the solver was called once for each of windows 0 .. N - 2 in
\* order, and at no time for window N - 1.
C4_RowsAndSolves ==
    /\ \A i \in 1..Len(solves) : solves[i].window = i - 1 /\ solves[i].window < Windows - 1
    /\ (pc \in {"returned", "costed", "done"} /\ Windows >= 2) =>
          /\ Len(operations) = Windows - 1
          /\ \A i \in 1..Len(operations) : operations[i].key = i
          /\ Len(solves) = Windows - 1

\* C4 witness: run_operations has returned the trace of 3 windows.
C4_Witness == pc = "returned" /\ Windows = 3 /\ Len(operations) = 2

\* C5: with bat_initial_soc in [0, 1], the battery energy the simulator carries is in
\* [0, bat_size_kwh] in every state.
C5_EnergyWithinCapacity ==
    ValidSoc => (0 <= energy_in_the_battery /\ energy_in_the_battery <= config.bat_size_kwh)

\* C5 witness: a step has moved the battery energy to a bound of the range.
C5_Witness ==
    /\ ValidSoc
    /\ Len(operations) >= 1
    /\ energy_in_the_battery # InitialEnergy(config)
    /\ energy_in_the_battery \in {0, config.bat_size_kwh}

\* C6: given fewer than 2 windows, run_operations does not return a trace.
C6_TooFewWindowsIsAnError ==
    (InRun /\ Windows < 2) => pc \notin {"returned", "costed", "done"}

\* C7: when a solve finds no solution, the error that ends the episode is raised by
\* run_opt.
C7_RunOptRaises ==
    (pc = "error" /\ Len(solves) > Len(operations)) => err = "opt.solve"

\* C8: the solver is invoked only for a step whose window holds finite demand values
\* and whose ground truth at the realized time is there.
C8_SolverSeesOnlyWellFormedWindows ==
    \A i \in 1..Len(solves) :
        /\ \A j \in 1..Len(dfs_mpc[solves[i].window + 1]) :
              ~IsNaN(dfs_mpc[solves[i].window + 1][j][1])
        /\ ~IsNaN(LoadSetPointTime(dfs_mpc, SetPointTime(solves[i].window)))

\* Every forecast equals the ground truth of the times it covers
PerfectForecasts ==
    \A k \in 1..Len(ts_list) : \A i \in 1..Len(ts_list[k]) :
        ts_list[k][i] = GtAt(gt, (k - 1) + (i - 1))

\* C9: when every forecast equals the ground truth, the model run and the baseline run
\* produce the same trace, row by row, and the NLE score is 0.
C9_ScenarioSymmetry ==
    (pc = "done" /\ PerfectForecasts) =>
        /\ df_operations = df_operations_gt
        /\ costs.total_cost = costs_gt.total_cost
        /\ nle_score = 0

\* C9 witness: run_nle has ended on perfect forecasts of 3 windows, the battery in use.
C9_Witness ==
    /\ pc = "done"
    /\ PerfectForecasts
    /\ Len(df_operations) = 2
    /\ \E i \in 1..Len(df_operations) : df_operations[i].row.bss_p_ch # 0

\* The realized loads of a trace
Loads(df) == [i \in 1..Len(df) |-> df[i].row.load]

\* C10: with bat_max_power = 0 every set point has bss_p_ch = 0, the battery energy
\* stays at its initial value, every realized net load equals the realized load, and
\* total_cost is the largest realized load times peak_cost.
C10_NoPowerNoDispatch ==
    config.bat_max_power = 0 =>
        /\ energy_in_the_battery = InitialEnergy(config)
        /\ \A i \in 1..Len(operations) :
              /\ operations[i].row.bss_p_ch = 0
              /\ operations[i].row.bss_en = InitialEnergy(config)
              /\ operations[i].row.opr_net_load = operations[i].row.load
        /\ (pc = "costed" /\ run = "gt") =>
              costs_gt.total_cost = PdMax(Loads(df_operations_gt)) * config.peak_cost
        /\ (pc \in {"costed", "done"} /\ run = "model") =>
              costs.total_cost = PdMax(Loads(df_operations)) * config.peak_cost

\* C10 witness: the model run of 3 windows has been costed with bat_max_power = 0 and
\* a positive realized load.
C10_Witness ==
    /\ config.bat_max_power = 0
    /\ pc = "costed"
    /\ run = "model"
    /\ Len(df_operations) = 2
    /\ costs.total_cost > 0

\* The baseline run has been costed: costs_gt belongs to df_operations_gt
GtCosted == (run = "gt" /\ pc = "costed") \/ run = "model"

\* The model run has been costed: costs belongs to df_operations
ModelCosted == run = "model" /\ pc \in {"costed", "done"}

\* c is the largest opr_net_load of the rows of df, times peak_cost
IsMaxNetLoadTimesPeakCost(df, c) ==
    \E i \in 1..Len(df) :
        /\ c = df[i].row.opr_net_load * config.peak_cost
        /\ \A j \in 1..Len(df) : df[j].row.opr_net_load <= df[i].row.opr_net_load

\* The positive factors peak_cost is scaled by
ScaleFactors == {1, 2, 3}

\* The configuration with peak_cost scaled by k
ScaledPeakCost(cfg, k) == [cfg EXCEPT !.peak_cost = k * @]

\* C11: total_cost is the largest opr_net_load of the trace times peak_cost, and for
\* the same trace the cost under peak_cost scaled by k is k times the cost.
C11_CostIsMaxTimesPeakCost ==
    /\ GtCosted =>
          /\ IsMaxNetLoadTimesPeakCost(df_operations_gt, costs_gt.total_cost)
          /\ \A k \in ScaleFactors :
                calculate_operational_costs(df_operations_gt, ScaledPeakCost(config, k)).total_cost
                    = k * costs_gt.total_cost
    /\ ModelCosted =>
          /\ IsMaxNetLoadTimesPeakCost(df_operations, costs.total_cost)
          /\ \A k \in ScaleFactors :
                calculate_operational_costs(df_operations, ScaledPeakCost(config, k)).total_cost
                    = k * costs.total_cost

\* C11 witness: a model run of 3 windows has been costed, its largest realized net
\* load is not that of the last row, and it differs from the largest planned net load.
C11_Witness ==
    /\ ModelCosted
    /\ Len(df_operations) = 2
    /\ df_operations[1].row.opr_net_load > df_operations[2].row.opr_net_load
    /\ costs.total_cost # 0
    /\ \A i \in 1..2 : df_operations[i].row.net_load # df_operations[1].row.opr_net_load

\* C12: the solve for window 0 receives bat_size_kwh * bat_initial_soc and peak_init;
\* the solve for window t >= 1 receives the bss_en and the peak of the row keyed t of
\* the operations (the values step t - 1 left), in the baseline run and the model run.
C12_StatePropagation ==
    \A i \in 1..Len(solves) :
        IF solves[i].window = 0
        THEN /\ solves[i].bss_energy = InitialEnergy(config)
             /\ solves[i].peak = config.peak_init
        ELSE \E j \in 1..Len(operations) :
                /\ operations[j].key = solves[i].window
                /\ solves[i].bss_energy = operations[j].row.bss_en
                /\ solves[i].peak = operations[j].row.peak

\* C12 witness: the model run has solved window 1 from an energy and a peak that
\* step 0 changed, the energy by other than the realized charge.
C12_Witness ==
    /\ run = "model"
    /\ Len(solves) = 2
    /\ solves[2].window = 1
    /\ solves[2].bss_energy # InitialEnergy(config)
    /\ solves[2].bss_energy # InitialEnergy(config) + operations[1].row.bss_p_ch
    /\ solves[2].peak # config.peak_init

====
